---- MODULE Spec2Model ----
(***************************************************************************)
(* Model of ai_stream: the random response generator with its message      *)
(* registry (components/assistant.py, components/messages.py) and the      *)
(* function-schema editor (configurations/function_tools.py).              *)
(*                                                                         *)
(* Python strings that the code takes apart (split, capitalize, format)    *)
(* are sequences of one-character strings; strings the code only compares  *)
(* or stores are TLA+ strings.                                             *)
(***************************************************************************)
EXTENDS Integers, Sequences, FiniteSets, TLC

VARIABLES
    widget_counter,   \* the session's widget counter, passed to and returned by generate_random_response
    response,         \* the last return of generate_random_response, with the call's arguments and locals
    issued_keys,      \* widget_key values computed so far in the session, oldest first
    parameters,       \* the parameter mapping handed to build_json_schema: id/param pairs in dict order
    schema,           \* the schema build_json_schema returned for it, NoSchema before the call
    converted,        \* what convert_openai_function_to_aistream_dict returned for schema, NoFunction before the call
    schema_pc,        \* "start", "built", "converted" or "removed"
    removed_id,       \* the id handed to the last remove_parameter call on parameters, 0 before it
    store,            \* FunctionsTable: function id -> item, NoItem where there is no record
    assistants,       \* the assistants at the LLM provider: assistant id -> list of tools
    started,          \* per session: app_state is in session_state
    functions,        \* per session: app_state.functions, the ordered id -> schema name cache
    current_function, \* per session: app_state.current_function
    next_function_id, \* the next function id create_id hands out
    last,             \* the last run of the editor page: who ran what, and how it ended
    stale             \* per session: another session's Save wrote the record of current_function since this session loaded it

chat_vars == <<widget_counter, response, issued_keys>>

schema_vars == <<parameters, schema, converted, schema_pc, removed_id>>

editor_vars == <<store, assistants, started, functions, current_function,
                 next_function_id, last, stale>>

vars == <<widget_counter, response, issued_keys, parameters, schema, converted, schema_pc,
          removed_id,
          store, assistants, started, functions, current_function, next_function_id, last,
          stale>>

-----------------------------------------------------------------------------
(* Bounds *)

\* calls of the input-widget path per session
MaxCounter == 12

\* parameters in a mapping handed to build_json_schema
MaxParams == 2

\* function ids create_id hands out, the stored function included
MaxFunctions == 2

\* parameters of the function being edited
MaxEditorParams == 3

\* tools an assistant holds
MaxTools == 3

\* most parameters in a mapping remove_parameter is called on
MaxRemoveParams == 3

-----------------------------------------------------------------------------
(* Strings as character sequences *)

LowerCase == <<"a","b","c","d","e","f","g","h","i","j","k","l","m",
               "n","o","p","q","r","s","t","u","v","w","x","y","z">>

UpperCase == <<"A","B","C","D","E","F","G","H","I","J","K","L","M",
               "N","O","P","Q","R","S","T","U","V","W","X","Y","Z">>

Digits == <<"0","1","2","3","4","5","6","7","8","9">>

\* str.upper() on one character
ToUpper(c) ==
    IF \E i \in DOMAIN LowerCase : LowerCase[i] = c
    THEN UpperCase[CHOOSE i \in DOMAIN LowerCase : LowerCase[i] = c]
    ELSE c

\* str.lower() on one character
ToLower(c) ==
    IF \E i \in DOMAIN UpperCase : UpperCase[i] = c
    THEN LowerCase[CHOOSE i \in DOMAIN UpperCase : UpperCase[i] = c]
    ELSE c

\* word.capitalize(): first character upper-cased, the rest lower-cased
Capitalize(word) ==
    IF word = <<>> THEN <<>>
    ELSE <<ToUpper(Head(word))>> \o [i \in 1..(Len(word) - 1) |-> ToLower(word[i + 1])]

\* s.split("_"): the maximal runs between underscores, empty runs included
RECURSIVE SplitUnderscore(_)
SplitUnderscore(s) ==
    IF \A i \in DOMAIN s : s[i] # "_" THEN <<s>>
    ELSE LET k == CHOOSE i \in DOMAIN s :
                      s[i] = "_" /\ \A j \in 1..(i - 1) : s[j] # "_"
         IN  <<SubSeq(s, 1, k - 1)>> \o SplitUnderscore(SubSeq(s, k + 1, Len(s)))

\* "".join(words)
RECURSIVE JoinWords(_)
JoinWords(words) ==
    IF words = <<>> THEN <<>> ELSE Head(words) \o JoinWords(Tail(words))

\* str(n) for n >= 0
RECURSIVE Decimal(_)
Decimal(n) ==
    IF n < 10 THEN <<Digits[n + 1]>>
    ELSE Decimal(n \div 10) \o <<Digits[(n % 10) + 1]>>

-----------------------------------------------------------------------------
(* components/messages.py: the message registry *)

\* cls.__name__ of every class decorated with @register_message
message_registry ==
    { <<"U","s","e","r","M","e","s","s","a","g","e">>,
      <<"A","s","s","i","s","t","a","n","t","M","e","s","s","a","g","e">>,
      <<"T","e","x","t","I","n","p","u","t">>,
      <<"S","e","l","e","c","t","b","o","x">>,
      <<"S","l","i","d","e","r">>,
      <<"C","h","e","c","k","b","o","x">>,
      <<"D","a","t","e","I","n","p","u","t">>,
      <<"T","i","m","e","I","n","p","u","t">>,
      <<"N","u","m","b","e","r","I","n","p","u","t">>,
      <<"T","e","x","t","A","r","e","a">>,
      <<"L","i","n","e","C","h","a","r","t">>,
      <<"B","a","r","C","h","a","r","t">>,
      <<"I","m","a","g","e">>,
      <<"T","a","b","l","e">>,
      <<"M","a","r","k","d","o","w","n">> }

\* the registered classes that derive from InputWidget
InputWidgetClasses ==
    { <<"T","e","x","t","I","n","p","u","t">>,
      <<"S","e","l","e","c","t","b","o","x">>,
      <<"S","l","i","d","e","r">>,
      <<"C","h","e","c","k","b","o","x">>,
      <<"D","a","t","e","I","n","p","u","t">>,
      <<"T","i","m","e","I","n","p","u","t">>,
      <<"N","u","m","b","e","r","I","n","p","u","t">>,
      <<"T","e","x","t","A","r","e","a">> }

-----------------------------------------------------------------------------
(* components/assistant.py: generate_random_response *)

\* widget_type of the five descriptors of possible_output_widgets
possible_output_widgets ==
    << <<"l","i","n","e","_","c","h","a","r","t">>,
       <<"b","a","r","_","c","h","a","r","t">>,
       <<"i","m","a","g","e">>,
       <<"t","a","b","l","e">>,
       <<"m","a","r","k","d","o","w","n">> >>

\* widget_type of the eight descriptors of possible_widgets
possible_widgets ==
    << <<"t","e","x","t","_","i","n","p","u","t">>,
       <<"s","e","l","e","c","t","b","o","x">>,
       <<"s","l","i","d","e","r">>,
       <<"c","h","e","c","k","b","o","x">>,
       <<"d","a","t","e","_","i","n","p","u","t">>,
       <<"t","i","m","e","_","i","n","p","u","t">>,
       <<"n","u","m","b","e","r","_","i","n","p","u","t">>,
       <<"t","e","x","t","_","a","r","e","a">> >>

\* the ten templates of possible_messages; 1 and 8 interpolate user_message
possible_messages == 1..10

\* user texts the session sends
UserMessages == {"hello", "bye"}

MessageSuffix == <<"M","e","s","s","a","g","e">>

\* "".join(word.capitalize() for word in widget_type.split("_")) + "Message"
ClassName(widget_type) ==
    JoinWords([i \in DOMAIN SplitUnderscore(widget_type) |->
                   Capitalize(SplitUnderscore(widget_type)[i])]) \o MessageSuffix

\* the key mutant: formatted from the counter before the increment
WidgetKeyStale(counter) ==
    <<"w","i","d","g","e","t","_">> \o Decimal(counter - 1)

\* f"widget_{widget_counter}"
WidgetKey(counter) ==
    <<"w","i","d","g","e","t","_">> \o Decimal(counter)

\* the text mutant: the fallback carries no text
UnknownWidgetTextEmpty == ""

\* the text of the fallback message
UnknownWidgetText == "Sorry, I encountered an unknown widget type."

AssistantMessageClass == <<"A","s","s","i","s","t","a","n","t","M","e","s","s","a","g","e">>

\* AssistantMessage(content)
AssistantMessage(content) ==
    [cls |-> AssistantMessageClass, content |-> content]

\* no call made yet
NoResponse ==
    [response_type |-> "none", received |-> 0, counter |-> 0,
     widget_type |-> <<>>, class_name |-> <<>>, widget_key |-> <<>>,
     message |-> AssistantMessage("")]

\* response_type == "output": one of the ten templates, counter returned as received
GenerateOutput(user_message) ==
    \E t \in possible_messages :
        /\ response' =
              [response_type |-> "output", received |-> widget_counter,
               counter |-> widget_counter,
               widget_type |-> <<>>, class_name |-> <<>>, widget_key |-> <<>>,
               message |-> AssistantMessage(
                   IF t \in {1, 8} THEN <<t, user_message>> ELSE <<t, "">>)]
        /\ UNCHANGED <<widget_counter, issued_keys>>
        /\ UNCHANGED <<schema_vars, editor_vars>>

\* response_type == "output_widget": registry lookup, widget or fallback, counter returned as received
GenerateOutputWidget ==
    \E i \in DOMAIN possible_output_widgets :
        LET widget_type == possible_output_widgets[i]
            class_name  == ClassName(widget_type)
        IN  /\ response' =
                  [response_type |-> "output_widget", received |-> widget_counter,
                   counter |-> widget_counter,
                   widget_type |-> widget_type, class_name |-> class_name,
                   widget_key |-> <<>>,
                   message |->
                       IF class_name \in message_registry
                       THEN [cls |-> class_name, widget_data |-> widget_type]
                       ELSE AssistantMessage(UnknownWidgetText)]
            /\ UNCHANGED <<widget_counter, issued_keys>>
            /\ UNCHANGED <<schema_vars, editor_vars>>

\* the counter mutant: the input-widget path forgets the increment
NextCounterSame(counter) == counter

\* widget_counter += 1
NextCounter(counter) == counter + 1

\* response_type == "input_widget": increment, key, registry lookup, widget or fallback
GenerateInputWidget ==
    /\ widget_counter < MaxCounter
    /\ \E i \in DOMAIN possible_widgets :
        LET counter     == NextCounter(widget_counter)
            widget_key  == WidgetKey(counter)
            widget_type == possible_widgets[i]
            class_name  == ClassName(widget_type)
        IN  /\ response' =
                  [response_type |-> "input_widget", received |-> widget_counter,
                   counter |-> counter,
                   widget_type |-> widget_type, class_name |-> class_name,
                   widget_key |-> widget_key,
                   message |->
                       IF class_name \in message_registry
                       THEN [cls |-> class_name, widget_config |-> widget_type,
                             key |-> widget_key]
                       ELSE AssistantMessage(UnknownWidgetText)]
            /\ widget_counter' = counter
            /\ issued_keys' = Append(issued_keys, widget_key)
            /\ UNCHANGED <<schema_vars, editor_vars>>

\* one call; the caller keeps the returned counter for the next call
generate_random_response ==
    \E user_message \in UserMessages :
        \/ GenerateOutput(user_message)
        \/ GenerateOutputWidget
        \/ GenerateInputWidget

-----------------------------------------------------------------------------
(* configurations/function_tools.py: parameters and schemas *)

PARAM_TYPES == <<"string", "number", "integer", "boolean", "array", "object">>

\* PARAM_TYPES.index(t), 0-based
TypeIndex(t) == (CHOOSE i \in DOMAIN PARAM_TYPES : PARAM_TYPES[i] = t) - 1

\* FunctionParameter(**fields) with __post_init__ setting the two indexes
FunctionParameter(name, description, type, required, enum, items_type) ==
    [name |-> name, description |-> description, type |-> type,
     required |-> required, enum |-> enum, items_type |-> items_type,
     type_index |-> TypeIndex(type), items_type_index |-> TypeIndex(items_type)]

\* dict.get(key, default) on a record
Get(d, key, default) == IF key \in DOMAIN d THEN d[key] ELSE default

\* an insertion-ordered dict as a sequence of [key, value] entries
DictKeys(d) == [i \in DOMAIN d |-> d[i].key]

DictHas(d, key) == \E i \in DOMAIN d : d[i].key = key

DictGet(d, key) == d[CHOOSE i \in DOMAIN d : d[i].key = key].value

\* d[key] = value: replaces the value in place when the key is present, appends otherwise
DictSet(d, key, value) ==
    IF DictHas(d, key)
    THEN [i \in DOMAIN d |-> IF d[i].key = key THEN [key |-> key, value |-> value] ELSE d[i]]
    ELSE Append(d, [key |-> key, value |-> value])

\* the enum mutant: the type test is dropped, enum emitted whenever non-empty
PropertyOfEnumAnyType(param) ==
    LET base == [type |-> param.type, description |-> param.description]
        withEnum == IF param.enum # <<>> THEN [enum |-> param.enum] @@ base ELSE base
    IN  IF param.type = "array"
        THEN [items |-> [type |-> param.items_type]] @@ withEnum
        ELSE withEnum

\* the prop dict build_json_schema makes for one named parameter
PropertyOf(param) ==
    LET base == [type |-> param.type, description |-> param.description]
        withEnum ==
            IF param.type \in {"string", "number", "integer"} /\ param.enum # <<>>
            THEN [enum |-> param.enum] @@ base
            ELSE base
    IN  IF param.type = "array"
        THEN [items |-> [type |-> param.items_type]] @@ withEnum
        ELSE withEnum

\* the required mutant: the test for a non-empty name is dropped
RECURSIVE RequiredParamsUnnamedToo(_)
RequiredParamsUnnamedToo(params) ==
    IF params = <<>> THEN <<>>
    ELSE (IF Head(params).param.required
          THEN <<Head(params).param.name>> ELSE <<>>)
         \o RequiredParamsUnnamedToo(Tail(params))

\* [param.name for param in parameters.values() if param.required and param.name]
RECURSIVE RequiredParams(_)
RequiredParams(params) ==
    IF params = <<>> THEN <<>>
    ELSE (IF Head(params).param.required /\ Head(params).param.name # ""
          THEN <<Head(params).param.name>> ELSE <<>>)
         \o RequiredParams(Tail(params))

\* the loop over parameters.values() filling properties, unnamed parameters skipped
RECURSIVE Properties(_, _)
Properties(params, properties) ==
    IF params = <<>> THEN properties
    ELSE LET param == Head(params).param
         IN  IF param.name = ""
             THEN Properties(Tail(params), properties)
             ELSE Properties(Tail(params),
                             DictSet(properties, param.name, PropertyOf(param)))

\* build_json_schema: the schema object (its JSON text is json.dumps of it)
build_json_schema(function_name, function_description, params) ==
    LET required_params == RequiredParams(params)
        base == [type |-> "object", properties |-> Properties(params, <<>>)]
    IN  [name |-> function_name,
         description |-> function_description,
         parameters |-> IF required_params # <<>>
                        THEN [required |-> required_params] @@ base
                        ELSE base]

\* the conversion mutant: required taken as the dataclass default instead of looked up
ConvertedParamRequiredDefault(param_name, param, required) ==
    FunctionParameter(param_name, param.description, param.type,
                      TRUE,
                      Get(param, "enum", <<>>),
                      Get(Get(param, "items", <<>>), "type", "string"))

\* the fields convert_openai_function_to_aistream_dict reads off one property
ConvertedParam(param_name, param, required) ==
    FunctionParameter(param_name, param.description, param.type,
                      \E i \in DOMAIN required : required[i] = param_name,
                      Get(param, "enum", <<>>),
                      Get(Get(param, "items", <<>>), "type", "string"))

\* convert_openai_function_to_aistream_dict on a schema dict; create_id gives
\* the ids first_id, first_id + 1, ...
convert_openai_function_to_aistream_dict(schema_name, schema_dict, first_id) ==
    LET params     == schema_dict.parameters
        required   == Get(params, "required", <<>>)
        properties == params.properties
    IN  [schema_name |-> schema_name,
         name |-> schema_dict.name,
         description |-> schema_dict.description,
         parameters |->
            [i \in DOMAIN properties |->
                [id |-> first_id + i - 1,
                 param |-> ConvertedParam(properties[i].key, properties[i].value,
                                          required)]]]

-----------------------------------------------------------------------------
(* The schema functions applied to bounded inputs *)

ParamNames == {"a", "b"}

ParamDescriptions == {"", "d"}

EnumLists == {<<>>, <<"x", "y">>}

ItemTypes == {"string", "integer"}

Range(f) == {f[i] : i \in DOMAIN f}

\* what parameter_input returns: enum only for string/number/integer, an item
\* type only for array; a parameter without a name is as add_parameter made it
FormParameters ==
    {FunctionParameter("", "", "string", TRUE, <<>>, "string")}
    \cup {FunctionParameter(n, d, t, r, e, "string") :
              n \in ParamNames, d \in ParamDescriptions,
              t \in {"string", "number", "integer"}, r \in BOOLEAN, e \in EnumLists}
    \cup {FunctionParameter(n, d, t, r, <<>>, "string") :
              n \in ParamNames, d \in ParamDescriptions,
              t \in {"boolean", "object"}, r \in BOOLEAN}
    \cup {FunctionParameter(n, d, "array", r, <<>>, it) :
              n \in ParamNames, d \in ParamDescriptions,
              r \in BOOLEAN, it \in ItemTypes}

\* the parameter mapping of the given values, ids 1, 2, ... in dict order
MappingOf(values) == [i \in DOMAIN values |-> [id |-> i, param |-> values[i]]]

NoSchema == [name |-> "", description |-> "",
             parameters |-> [type |-> "none", properties |-> <<>>]]

NoFunction == [schema_name |-> "", name |-> "", description |-> "", parameters |-> <<>>]

\* no chat session running
ChatIdle ==
    /\ widget_counter = 0
    /\ response = NoResponse
    /\ issued_keys = <<>>

\* the schema functions not called
SchemaIdle ==
    /\ parameters = <<>>
    /\ schema = NoSchema
    /\ converted = NoFunction
    /\ schema_pc = "start"
    /\ removed_id = 0

-----------------------------------------------------------------------------
(* configurations/function_tools.py and utils/app_state.py: the editor page *)

\* browser sessions, each with its own app_state
Sessions == {"s1", "s2"}

AssistantIds == {"asst1", "asst2"}

\* the keys of TOOLS, offered by the "Function Name" selectbox: the classes
\* decorated with register_tool
ToolNames == {"TextInput"}

\* the function names the user can leave in the JSON of the Expert Mode editor
JsonNames == {"TextInput", "Renamed"}

\* what the user types into "Schema Name" (Save is disabled while it is empty)
SchemaNames == {"S2"}

\* what the user types into "Function Description"
FunctionDescriptions == {"fd", "fd2"}

FunctionIdSpace == 1..MaxFunctions

\* no record under the id: FunctionsTable.get raises DoesNotExist
NoItem == [exists |-> FALSE, name |-> "", used_by |-> <<>>, value |-> NoSchema]

\* FunctionsTable(id=function_id, name=schema_name, used_by=[], value=schema)
NewItem(schema_name, schema_dict) ==
    [exists |-> TRUE, name |-> schema_name, used_by |-> <<>>, value |-> schema_dict]

\* the update mutant: the name attribute is not set
UpdatedItemValueOnly(item, schema_name, schema_dict) ==
    [item EXCEPT !.value = schema_dict]

\* existing_function.update(actions=[value.set(schema), name.set(schema_name)])
UpdatedItem(item, schema_name, schema_dict) ==
    [item EXCEPT !.value = schema_dict, !.name = schema_name]

\* {"type": "function", "function": schema}
FunctionTool(schema_dict) == [type |-> "function", function |-> schema_dict]

\* the tools mutant: the old tools go, the new schema is not appended
NewToolsWithoutSchema(tools, function_name, schema_dict) ==
    LET Kept(tool) == tool.function.name # function_name
    IN  SelectSeq(tools, Kept)

\* the tools list Save sends for one assistant: the tools not named
\* function_name, then the new schema
NewTools(tools, function_name, schema_dict) ==
    LET Kept(tool) == tool.function.name # function_name
    IN  Append(SelectSeq(tools, Kept), FunctionTool(schema_dict))

\* AppState(): current_function = {}
EmptyFunction ==
    [id |-> 0, schema_name |-> "", name |-> "", description |-> "", parameters |-> <<>>]

\* new_function()
new_function ==
    [name |-> "", schema_name |-> "NewFunction", description |-> "", parameters |-> <<>>]

\* del d[key] on an ordered dict
DictDel(d, key) ==
    LET Kept(entry) == entry.key # key
    IN  SelectSeq(d, Kept)

\* ensure_app_state: {item.id: item.name for item in FunctionsTable.scan(...)}
RECURSIVE ScanFunctions(_, _)
ScanFunctions(table, i) ==
    IF i > MaxFunctions THEN <<>>
    ELSE (IF table[i].exists THEN <<[key |-> i, value |-> table[i].name]>> ELSE <<>>)
         \o ScanFunctions(table, i + 1)

\* convert_to_openai_function(TOOLS[new_name].<new_name>Schema): the schema
\* class's name and docstring, and its required field (the optional fields
\* are left out)
DefaultToolSchema(new_name) ==
    [name |-> "TextInputSchema",
     description |-> "Schema for TextInput.",
     parameters |->
        [type |-> "object",
         properties |-> <<[key |-> "label",
                           value |-> [type |-> "string",
                                      description |-> "A short label explaining the input."]]>>,
         required |-> <<"label">>]]

\* get_function up to stored_function: reload when another id is selected
LoadFunction(cf, function_id, table) ==
    IF cf.id # function_id
    THEN IF table[function_id].exists
         THEN [id |-> function_id]
              @@ convert_openai_function_to_aistream_dict(
                     table[function_id].name, table[function_id].value, 1)
         ELSE [id |-> function_id] @@ new_function
    ELSE cf

\* display_function: a function without parameters takes name, description
\* and parameters from the schema of the selected tool
PopulateIfEmpty(cf, schema_name, new_name) ==
    IF cf.parameters = <<>>
    THEN [id |-> cf.id]
         @@ convert_openai_function_to_aistream_dict(
                schema_name, DefaultToolSchema(new_name), 1)
    ELSE cf

\* app_state.current_function once a run has passed get_function and the top
\* of display_function (Expert Mode off)
Opened(cf, cache, function_id, new_name, table) ==
    PopulateIfEmpty(LoadFunction(cf, function_id, table),
                    DictGet(cache, function_id), new_name)

\* create_id for a parameter: an id the mapping does not hold
FreshParamId(params) ==
    CHOOSE n \in 1..(Len(params) + 1) :
        /\ \A i \in DOMAIN params : params[i].id # n
        /\ \A m \in 1..(n - 1) : \E i \in DOMAIN params : params[i].id = m

\* add_parameter
add_parameter(cf) ==
    [cf EXCEPT !.parameters =
        Append(@, [id |-> FreshParamId(@),
                   param |-> FunctionParameter("", "", "string", TRUE, <<>>, "string")])]

\* the removal mutant: the first entry goes, whatever the id
remove_parameter_first(cf, param_id) ==
    [cf EXCEPT !.parameters = Tail(@)]

\* remove_parameter
remove_parameter(cf, param_id) ==
    LET Kept(entry) == entry.id # param_id
    IN  [cf EXCEPT !.parameters = SelectSeq(@, Kept)]

NoRun ==
    [session |-> "", op |-> "none", function_id |-> 0, outcome |-> "ok",
     found |-> FALSE, schema |-> NoSchema,
     schema_name |-> "", failed_at |-> 0,
     param_id |-> 0, replaced |-> NoSchema, was_stale |-> FALSE]

\* stale after a run of session s that selects function_id: get_function
\* reloads from the store when another id was held
StaleAfterLoad(s, function_id) ==
    [stale EXCEPT ![s] = IF current_function[s].id # function_id THEN FALSE ELSE @]

\* stale after session s wrote the record of function_id: every other session
\* that holds the function now holds an older copy
StaleAfterSave(s, function_id) ==
    [t \in Sessions |->
        IF t # s /\ started[t] /\ current_function[t].id = function_id
        THEN TRUE
        ELSE stale[t]]

\* one stored function used by both assistants; no session opened yet
EditorIdle ==
    LET stored == build_json_schema("TextInput", "fd",
                      MappingOf(<<FunctionParameter("a", "d", "string", TRUE, <<>>, "string")>>))
        other  == build_json_schema("OtherTool", "od", <<>>)
    IN  /\ store = [i \in FunctionIdSpace |->
                       IF i = 1
                       THEN [NewItem("S1", stored) EXCEPT !.used_by = <<"asst1", "asst2">>]
                       ELSE NoItem]
        /\ assistants = [a \in AssistantIds |->
                            IF a = "asst1"
                            THEN <<FunctionTool(other), FunctionTool(stored)>>
                            ELSE <<FunctionTool(stored)>>]
        /\ started = [s \in Sessions |-> FALSE]
        /\ functions = [s \in Sessions |-> <<>>]
        /\ current_function = [s \in Sessions |-> EmptyFunction]
        /\ next_function_id = 2
        /\ last = NoRun
        /\ stale = [s \in Sessions |-> FALSE]

\* the first run of a session: ensure_app_state fills the cache from the
\* store, then main shows the first function
StartSession(s) ==
    /\ ~started[s]
    /\ started' = [started EXCEPT ![s] = TRUE]
    /\ LET cache == ScanFunctions(store, 1)
       IN  /\ functions' = [functions EXCEPT ![s] = cache]
           /\ IF cache = <<>>
              THEN /\ UNCHANGED current_function
                   /\ last' = [NoRun EXCEPT !.session = s, !.op = "start"]
              ELSE \E new_name \in ToolNames :
                     LET function_id == cache[1].key
                     IN  /\ current_function' =
                               [current_function EXCEPT ![s] =
                                   Opened(@, cache, function_id, new_name, store)]
                         /\ last' = [NoRun EXCEPT !.session = s, !.op = "start",
                                        !.function_id = function_id,
                                        !.found = store[function_id].exists]
    /\ stale' = [stale EXCEPT ![s] = FALSE]
    /\ UNCHANGED <<store, assistants, next_function_id>>
    /\ UNCHANGED <<chat_vars, schema_vars>>

\* a run without a button: the user selects a function or edits a field, and
\* get_function loads the selected function
SelectFunction(s) ==
    /\ started[s]
    /\ \E i \in DOMAIN functions[s], new_name \in ToolNames :
        LET function_id == functions[s][i].key
        IN  /\ current_function' =
                  [current_function EXCEPT ![s] =
                      Opened(@, functions[s], function_id, new_name, store)]
            /\ last' = [NoRun EXCEPT !.session = s, !.op = "load",
                           !.function_id = function_id,
                           !.found = store[function_id].exists]
            /\ stale' = StaleAfterLoad(s, function_id)
    /\ UNCHANGED <<store, assistants, started, functions, next_function_id>>
    /\ UNCHANGED <<chat_vars, schema_vars>>

\* "New Function": add_function puts a new id first in the cache, then the
\* run goes on with the selected function
NewFunction(s) ==
    /\ started[s]
    /\ next_function_id <= MaxFunctions
    /\ LET cache == <<[key |-> next_function_id, value |-> "NewFunction"]>> \o functions[s]
       IN  /\ functions' = [functions EXCEPT ![s] = cache]
           /\ \E i \in DOMAIN cache, new_name \in ToolNames :
                LET function_id == cache[i].key
                IN  /\ current_function' =
                          [current_function EXCEPT ![s] =
                              Opened(@, cache, function_id, new_name, store)]
                    /\ last' = [NoRun EXCEPT !.session = s, !.op = "new",
                                   !.function_id = function_id,
                                   !.found = store[function_id].exists]
                    /\ stale' = StaleAfterLoad(s, function_id)
    /\ next_function_id' = next_function_id + 1
    /\ UNCHANGED <<store, assistants, started>>
    /\ UNCHANGED <<chat_vars, schema_vars>>

\* "Add Parameter": add_parameter on the function display_function shows
AddParameter(s) ==
    /\ started[s]
    /\ \E i \in DOMAIN functions[s], new_name \in ToolNames :
        LET function_id == functions[s][i].key
            cf == Opened(current_function[s], functions[s], function_id, new_name, store)
        IN  /\ current_function[s].id = function_id
            /\ Len(cf.parameters) < MaxEditorParams
            /\ current_function' = [current_function EXCEPT ![s] = add_parameter(cf)]
            /\ last' = [NoRun EXCEPT !.session = s, !.op = "add_parameter",
                           !.function_id = function_id,
                           !.found = store[function_id].exists]
    /\ UNCHANGED <<store, assistants, started, functions, next_function_id, stale>>
    /\ UNCHANGED <<chat_vars, schema_vars>>

\* "Remove Parameter": remove_parameter, then st.rerun() runs the page again
\* for the same function
RemoveParameter(s) ==
    /\ started[s]
    /\ \E i \in DOMAIN functions[s], new_name \in ToolNames :
        LET function_id == functions[s][i].key
            cf == Opened(current_function[s], functions[s], function_id, new_name, store)
        IN  \E k \in DOMAIN cf.parameters :
              /\ current_function[s].id = function_id
              /\ current_function' =
                    [current_function EXCEPT ![s] =
                        PopulateIfEmpty(remove_parameter(cf, cf.parameters[k].id),
                                        DictGet(functions[s], function_id), new_name)]
              /\ last' = [NoRun EXCEPT !.session = s, !.op = "remove_parameter",
                             !.function_id = function_id,
                             !.found = store[function_id].exists,
                             !.param_id = cf.parameters[k].id]
    /\ UNCHANGED <<store, assistants, started, functions, next_function_id, stale>>
    /\ UNCHANGED <<chat_vars, schema_vars>>

\* the loop mutant: a failure is skipped and the loop goes on to the end
UpdatedAssistantsIsolated(used_by, stop, function_name, schema_dict) ==
    [a \in AssistantIds |->
        IF \E k \in DOMAIN used_by : k # stop /\ used_by[k] = a
        THEN NewTools(assistants[a], function_name, schema_dict)
        ELSE assistants[a]]

\* the assistants after the used_by loop of Save ran up to (not including)
\* position stop
UpdatedAssistants(used_by, stop, function_name, schema_dict) ==
    [a \in AssistantIds |->
        IF \E k \in DOMAIN used_by : k < stop /\ used_by[k] = a
        THEN NewTools(assistants[a], function_name, schema_dict)
        ELSE assistants[a]]

\* "Save Function": the run up to the button, then the upsert, the used_by
\* loop and the cache entry. With Expert Mode on, the function shown is the
\* conversion of the JSON in the code editor, not app_state.current_function.
\* failed_at > 0: the retrieve or update call for used_by[failed_at] raises.
\* A button click reruns the page with the selection of the run before, so
\* the function saved is the one app_state.current_function holds.
SaveFunction(s) ==
    /\ started[s]
    /\ \E i \in DOMAIN functions[s], new_name \in ToolNames,
          new_description \in FunctionDescriptions, schema_name \in SchemaNames,
          expert \in BOOLEAN :
      \E json_name \in (IF expert THEN JsonNames ELSE {""}) :
        LET function_id == functions[s][i].key
            stored_function == LoadFunction(current_function[s], function_id, store)
            function_name == IF expert THEN json_name ELSE stored_function.name
            shown == PopulateIfEmpty(stored_function,
                                     DictGet(functions[s], function_id), new_name)
            existing_function == store[function_id]
        IN  \E failed_at \in 0..Len(existing_function.used_by) :
              /\ current_function[s].id = function_id
              /\ LET updated_parameters == shown.parameters
                      schema_dict == build_json_schema(new_name, new_description,
                                                       updated_parameters)
                      stop == IF failed_at = 0
                              THEN Len(existing_function.used_by) + 1
                              ELSE failed_at
                  IN  /\ \A k \in DOMAIN existing_function.used_by :
                             Len(assistants[existing_function.used_by[k]]) < MaxTools
                      /\ current_function' =
                            [current_function EXCEPT ![s] =
                                IF expert THEN stored_function ELSE shown]
                      /\ store' =
                            [store EXCEPT ![function_id] =
                                IF existing_function.exists
                                THEN UpdatedItem(existing_function, schema_name, schema_dict)
                                ELSE NewItem(schema_name, schema_dict)]
                      /\ assistants' =
                            UpdatedAssistants(existing_function.used_by, stop,
                                              function_name, schema_dict)
                      /\ functions' =
                            IF failed_at = 0
                            THEN [functions EXCEPT ![s] =
                                     DictSet(@, function_id, schema_name)]
                            ELSE functions
                      /\ last' = [session |-> s, op |-> "save",
                                  function_id |-> function_id,
                                  outcome |-> IF failed_at = 0 THEN "ok" ELSE "raised",
                                  found |-> existing_function.exists,
                                  schema |-> schema_dict,
                                  schema_name |-> schema_name,
                                  failed_at |-> failed_at,
                                  param_id |-> 0,
                                  replaced |-> existing_function.value,
                                  was_stale |-> stale[s]]
                      /\ stale' = StaleAfterSave(s, function_id)
    /\ UNCHANGED <<started, next_function_id>>
    /\ UNCHANGED <<chat_vars, schema_vars>>

\* the delete mutant: the cache entry goes, the record stays
StoreAfterRemoveKept(table, function_id) == table

\* item = FunctionsTable.get(function_id); item.delete()
StoreAfterRemove(table, function_id) ==
    [table EXCEPT ![function_id] = NoItem]

\* "Remove Function": remove_function, then st.rerun() runs the page again.
\* Without a record FunctionsTable.get raises after the cache entry is gone.
RemoveFunction(s) ==
    /\ started[s]
    /\ \E i \in DOMAIN functions[s], new_name \in ToolNames :
        LET function_id == functions[s][i].key
            cf == Opened(current_function[s], functions[s], function_id, new_name, store)
            cache == DictDel(functions[s], function_id)
        IN  /\ current_function[s].id = function_id
            /\ functions' = [functions EXCEPT ![s] = cache]
            /\ IF store[function_id].exists
               THEN /\ store' = StoreAfterRemove(store, function_id)
                    /\ IF cache = <<>>
                       THEN /\ current_function' = [current_function EXCEPT ![s] = cf]
                            /\ UNCHANGED stale
                       ELSE \E j \in DOMAIN cache, next_name \in ToolNames :
                              /\ current_function' =
                                    [current_function EXCEPT ![s] =
                                        Opened(cf, cache, cache[j].key, next_name, store')]
                              /\ stale' = [stale EXCEPT ![s] = FALSE]
                    /\ last' = [NoRun EXCEPT !.session = s, !.op = "remove",
                                   !.function_id = function_id, !.found = TRUE]
               ELSE /\ store' = store
                    /\ current_function' = [current_function EXCEPT ![s] = cf]
                    /\ last' = [NoRun EXCEPT !.session = s, !.op = "remove",
                                   !.function_id = function_id, !.found = FALSE,
                                   !.outcome = "raised"]
                    /\ UNCHANGED stale
    /\ UNCHANGED <<assistants, started, next_function_id>>
    /\ UNCHANGED <<chat_vars, schema_vars>>

EditorInit ==
    /\ EditorIdle
    /\ ChatIdle
    /\ SchemaIdle

\* the session whose runs the editor specification follows
EditingSessions == {"s1"}

EditorNext ==
    \E s \in EditingSessions :
        \/ StartSession(s)
        \/ SelectFunction(s)
        \/ NewFunction(s)
        \/ SaveFunction(s)
        \/ RemoveFunction(s)

\* the editor page driven by the sessions' runs
SpecEditor == EditorInit /\ [][EditorNext]_vars

\* two sessions on the stored functions: each loads, edits the form and saves
SessionsNext ==
    \E s \in Sessions :
        \/ StartSession(s)
        \/ SelectFunction(s)
        \/ SaveFunction(s)

\* concurrent editors of the same store
SpecSessions == EditorInit /\ [][SessionsNext]_vars

\* the parameter editing of a session: the runs that load a function and the
\* parameter buttons
ParametersNext ==
    \E s \in EditingSessions :
        \/ StartSession(s)
        \/ SelectFunction(s)
        \/ NewFunction(s)
        \/ AddParameter(s)
        \/ RemoveParameter(s)

SpecParameters == EditorInit /\ [][ParametersNext]_vars

-----------------------------------------------------------------------------
(* The schema functions on bounded inputs *)

\* every mapping the form produces, before any call
SchemaInit ==
    /\ \E n \in 0..MaxParams :
           \E values \in [1..n -> FormParameters] : parameters = MappingOf(values)
    /\ schema = NoSchema
    /\ converted = NoFunction
    /\ schema_pc = "start"
    /\ removed_id = 0
    /\ ChatIdle
    /\ EditorIdle

\* schema, _ = build_json_schema(name, description, parameters)
BuildSchema ==
    /\ schema_pc = "start"
    /\ schema' = build_json_schema("TextInput", "fd", parameters)
    /\ schema_pc' = "built"
    /\ UNCHANGED <<parameters, converted, removed_id>>
    /\ UNCHANGED <<chat_vars, editor_vars>>

\* convert_openai_function_to_aistream_dict(schema_name, schema)
ConvertBack ==
    /\ schema_pc = "built"
    /\ converted' = convert_openai_function_to_aistream_dict(
                        "S", schema, Len(parameters) + 1)
    /\ schema_pc' = "converted"
    /\ UNCHANGED <<parameters, schema, removed_id>>
    /\ UNCHANGED <<chat_vars, editor_vars>>

SchemaNext == BuildSchema \/ ConvertBack

\* build_json_schema and the conversion back, on every mapping the form produces
SpecSchema == SchemaInit /\ [][SchemaNext]_vars

\* FunctionParameter values the form never returns but the dataclass admits:
\* an enum on a type that takes none, an item type on a type that is no array
OtherParameters ==
    {FunctionParameter("a", "d", t, r, <<"x", "y">>, "string") :
         t \in {"boolean", "object", "array"}, r \in BOOLEAN}
    \cup {FunctionParameter("b", "d", t, r, <<>>, "integer") :
              t \in {"string", "boolean"}, r \in BOOLEAN}

AnyParameters == FormParameters \cup OtherParameters

\* every bounded mapping of FunctionParameter values, before any call
BuildInit ==
    /\ \E n \in 0..MaxParams :
           \E values \in [1..n -> AnyParameters] : parameters = MappingOf(values)
    /\ schema = NoSchema
    /\ converted = NoFunction
    /\ schema_pc = "start"
    /\ removed_id = 0
    /\ ChatIdle
    /\ EditorIdle

BuildNext == BuildSchema

\* build_json_schema alone, on every bounded mapping
SpecBuild == BuildInit /\ [][BuildNext]_vars

\* parameter values of the mappings remove_parameter is called on
RemovableParameters ==
    {FunctionParameter("", "", "string", TRUE, <<>>, "string"),
     FunctionParameter("a", "d", "string", TRUE, <<"x", "y">>, "string"),
     FunctionParameter("b", "", "array", FALSE, <<>>, "integer")}

\* a function with any bounded parameter mapping, before the call
RemoveInit ==
    /\ \E n \in 0..MaxRemoveParams :
           \E values \in [1..n -> RemovableParameters] : parameters = MappingOf(values)
    /\ schema = NoSchema
    /\ converted = NoFunction
    /\ schema_pc = "start"
    /\ removed_id = 0
    /\ ChatIdle
    /\ EditorIdle

\* remove_parameter(selected_function, param_id) for an id of the mapping;
\* converted holds selected_function after the call
RemoveOne ==
    /\ schema_pc = "start"
    /\ \E k \in DOMAIN parameters :
          /\ removed_id' = parameters[k].id
          /\ converted' = remove_parameter(
                              [NoFunction EXCEPT !.parameters = parameters],
                              parameters[k].id)
    /\ schema_pc' = "removed"
    /\ UNCHANGED <<parameters, schema>>
    /\ UNCHANGED <<chat_vars, editor_vars>>

RemoveNext == RemoveOne

\* remove_parameter alone, on every bounded mapping and every id in it
SpecRemove == RemoveInit /\ [][RemoveNext]_vars

\* a fresh chat session
ChatInit ==
    /\ ChatIdle
    /\ SchemaIdle
    /\ EditorIdle

ChatNext == generate_random_response

\* the chat session: repeated calls of the generator
SpecChat == ChatInit /\ [][ChatNext]_vars

-----------------------------------------------------------------------------
(* Properties of the generator *)

\* the message is the fixed fallback of an unresolved lookup
IsUnknownWidgetFallback(message) ==
    message = AssistantMessage(UnknownWidgetText)

\* the number a string of decimal digits denotes, read digit by digit
RECURSIVE DecimalValue(_)
DecimalValue(digits) ==
    IF digits = <<>> THEN 0
    ELSE 10 * DecimalValue(SubSeq(digits, 1, Len(digits) - 1))
         + ((CHOOSE i \in DOMAIN Digits : Digits[i] = digits[Len(digits)]) - 1)

\* key is "widget_" followed by the decimal digits of n
IsWidgetKeyOf(key, n) ==
    /\ Len(key) > 7
    /\ SubSeq(key, 1, 7) = <<"w","i","d","g","e","t","_">>
    /\ \A i \in 8..Len(key) : \E d \in DOMAIN Digits : Digits[d] = key[i]
    /\ key[8] # "0"
    /\ DecimalValue(SubSeq(key, 8, Len(key))) = n

\* C1 (as claimed): every widget call resolves its derived class name in the
\* message registry and never returns the 'unknown widget type' fallback.
C1_PoolLookupResolves ==
    response.response_type \in {"output_widget", "input_widget"} =>
        /\ response.class_name \in message_registry
        /\ ~IsUnknownWidgetFallback(response.message)

\* C3: when the input-widget category is chosen, the returned counter is the
\* received counter plus exactly 1, and the key made for the input widget (and
\* carried by it when one is constructed) is "widget_" followed by that counter.
C3_InputPathCounterAndKey ==
    response.response_type = "input_widget" =>
        /\ response.counter = response.received + 1
        /\ widget_counter = response.counter
        /\ IsWidgetKeyOf(response.widget_key, response.counter)
        /\ (response.message.cls \in InputWidgetClasses =>
                response.message.key = response.widget_key)

\* C3 witness: an input-widget call made with a counter already above zero,
\* returning a two-digit counter.
C3_Witness ==
    /\ response.response_type = "input_widget"
    /\ response.received >= 9
    /\ response.counter >= 10

\* C4: over a session the counter is left unchanged by plain-text and
\* output-widget responses and never decreases, and no two keys made for input
\* widgets in the session are equal.
C4_CounterMonotoneKeysUnique ==
    /\ [][/\ widget_counter' >= widget_counter
          /\ (response'.response_type \in {"output", "output_widget"} =>
                  /\ widget_counter' = widget_counter
                  /\ response'.counter = response'.received)]_vars
    /\ [](\A i, j \in DOMAIN issued_keys :
              issued_keys[i] = issued_keys[j] => i = j)

\* C4 witness: several input-widget calls interleaved with a call that leaves
\* the counter alone.
C4_Witness ==
    /\ Len(issued_keys) >= 3
    /\ response.response_type = "output_widget"
    /\ response.counter = widget_counter

-----------------------------------------------------------------------------
(* Properties of build_json_schema and the conversion back *)

\* the positions of the mapping whose parameter has a name
NamedPositions(params) == {i \in DOMAIN params : params[i].param.name # ""}

\* the six fields a round trip has to keep
SameFields(p, q) ==
    /\ p.name = q.name
    /\ p.description = q.description
    /\ p.type = q.type
    /\ p.required = q.required
    /\ p.enum = q.enum
    /\ p.items_type = q.items_type

\* every named parameter of the mapping has a converted parameter with the same fields
RoundTripKeepsNamed ==
    \A i \in NamedPositions(parameters) :
        \E j \in DOMAIN converted.parameters :
            SameFields(parameters[i].param, converted.parameters[j].param)

\* no two named parameters of the mapping share a name
NamesDistinct(params) ==
    \A i, j \in NamedPositions(params) :
        params[i].param.name = params[j].param.name => i = j

\* C2 (as claimed): for every parameter mapping, build_json_schema followed by
\* the conversion back yields, for every named parameter, a parameter with the
\* same name, description, type, required, enum and items_type.
C2_RoundTripEveryMapping ==
    schema_pc = "converted" => RoundTripKeepsNamed

\* C2 (amended): the round trip keeps the six fields of every named parameter
\* of a mapping the form produces in which no two parameters share a non-empty
\* name; the converted mapping then holds the named parameters and nothing
\* else, and unnamed parameters are dropped.
C2_RoundTripDistinctNames ==
    (schema_pc = "converted" /\ NamesDistinct(parameters)) =>
        /\ RoundTripKeepsNamed
        /\ Len(converted.parameters) = Cardinality(NamedPositions(parameters))
        /\ \A j \in DOMAIN converted.parameters :
               converted.parameters[j].param.name # ""

\* C2 witness: a converted mapping of two differently named parameters, one an
\* optional array of integers, the other with an enum.
C2_Witness ==
    /\ schema_pc = "converted"
    /\ Len(parameters) = 2
    /\ NamesDistinct(parameters)
    /\ NamedPositions(parameters) = {1, 2}
    /\ parameters[1].param.type = "array"
    /\ parameters[1].param.items_type = "integer"
    /\ ~parameters[1].param.required
    /\ parameters[2].param.enum # <<>>
    /\ Len(converted.parameters) = 2

\* the positions of the named parameters flagged required
RequiredPositions(params) ==
    {i \in NamedPositions(params) : params[i].param.required}

\* the k-th smallest position of a set of positions
KthPosition(positions, k) ==
    CHOOSE i \in positions : Cardinality({j \in positions : j < i}) = k - 1

\* C9: the 'required' list of the built schema holds exactly the names of the
\* parameters with a non-empty name and required=true, in mapping order, and
\* each of its names is a key of 'properties'.
C9_RequiredList ==
    schema_pc = "built" =>
        LET required  == Get(schema.parameters, "required", <<>>)
            positions == RequiredPositions(parameters)
        IN  /\ Len(required) = Cardinality(positions)
            /\ \A k \in DOMAIN required :
                   required[k] = parameters[KthPosition(positions, k)].param.name
            /\ \A k \in DOMAIN required :
                   DictHas(schema.parameters.properties, required[k])

\* C9 witness: a required unnamed parameter ahead of a required named one.
C9_Witness ==
    /\ schema_pc = "built"
    /\ Len(parameters) = 2
    /\ parameters[1].param.name = "" /\ parameters[1].param.required
    /\ parameters[2].param.name = "b" /\ parameters[2].param.required
    /\ schema.parameters.required = <<"b">>

\* the property emitted for a parameter matches the parameter's type and enum
PropertyMatches(param, prop) ==
    /\ "type" \in DOMAIN prop
    /\ "description" \in DOMAIN prop
    /\ ("items" \in DOMAIN prop <=> param.type = "array")
    /\ ("items" \in DOMAIN prop => prop.items = [type |-> param.items_type])
    /\ ("enum" \in DOMAIN prop <=>
            (param.type \in {"string", "number", "integer"} /\ param.enum # <<>>))

\* C10 (as claimed): for every named parameter, the property emitted under its
\* name has type and description, has items (typed by items_type) iff the type
\* is array, and has enum iff the type is string, number or integer and the
\* enum list is non-empty.
C10_PropertyOfEveryNamed ==
    schema_pc = "built" =>
        \A i \in NamedPositions(parameters) :
            /\ DictHas(schema.parameters.properties, parameters[i].param.name)
            /\ PropertyMatches(parameters[i].param,
                               DictGet(schema.parameters.properties,
                                       parameters[i].param.name))

\* the named positions whose name no later parameter of the mapping carries
LastOfName(params) ==
    {i \in NamedPositions(params) :
        \A j \in DOMAIN params : j > i => params[j].param.name # params[i].param.name}

\* C10 (amended): the same, for every named parameter whose name is not
\* carried by a later parameter of the mapping (every named parameter, when
\* names are distinct).
C10_PropertyOfLastNamed ==
    schema_pc = "built" =>
        \A i \in LastOfName(parameters) :
            /\ DictHas(schema.parameters.properties, parameters[i].param.name)
            /\ PropertyMatches(parameters[i].param,
                               DictGet(schema.parameters.properties,
                                       parameters[i].param.name))

\* C10 witness: a boolean parameter carrying an enum list beside an array
\* parameter, each under its own name.
C10_Witness ==
    /\ schema_pc = "built"
    /\ Len(parameters) = 2
    /\ parameters[1].param.name = "a"
    /\ parameters[1].param.type = "boolean"
    /\ parameters[1].param.enum # <<>>
    /\ parameters[2].param.name = "b"
    /\ parameters[2].param.type = "array"
    /\ "items" \in DOMAIN DictGet(schema.parameters.properties, "b")

-----------------------------------------------------------------------------
(* Properties of the editor page *)

\* C5 (as claimed): a Load, Save or Remove that looks up a function id without
\* a stored record completes without raising.
C5_MissingRecordNeverRaises ==
    (last.op \in {"start", "load", "new", "save", "remove"}
     /\ last.function_id \in FunctionIdSpace
     /\ ~last.found)
        => last.outcome = "ok"

\* C6: a Save of function id F that completes leaves under F a record whose
\* value is the schema just built and whose name is the entered schema name,
\* with used_by empty when inserted and unchanged when updated; the session
\* cache maps F to that name; no record under another id is changed.
C6_SaveUpsertsById ==
    [][(last'.op = "save" /\ last'.outcome = "ok") =>
          LET F == last'.function_id
              s == last'.session
          IN  /\ store'[F].exists
              /\ store'[F].value = last'.schema
              /\ last'.schema.name \in ToolNames
              /\ store'[F].name = last'.schema_name
              /\ last'.schema_name \in SchemaNames
              /\ store'[F].used_by =
                    IF store[F].exists THEN store[F].used_by ELSE <<>>
              /\ DictHas(functions'[s], F)
              /\ DictGet(functions'[s], F) = last'.schema_name
              /\ \A i, j \in DOMAIN functions'[s] :
                     functions'[s][i].key = functions'[s][j].key => i = j
              /\ \A G \in FunctionIdSpace \ {F} : store'[G] = store[G]]_vars

\* C6 witness: a completed Save that updated a record used by assistants and
\* renamed it, while another function is stored too.
C6_Witness ==
    /\ last.op = "save"
    /\ last.outcome = "ok"
    /\ last.found
    /\ store[last.function_id].used_by # <<>>
    /\ store[last.function_id].name = "S2"
    /\ \E G \in FunctionIdSpace \ {last.function_id} : store[G].exists

\* C7 (as claimed): when a completed Save updates a record with a non-empty
\* used_by list, each listed assistant's tools afterwards are its former tools
\* without the one named by the function's old name, followed by the new
\* schema as a function tool.
C7_SaveReplacesOldTool ==
    [][(last'.op = "save" /\ last'.outcome = "ok"
        /\ store[last'.function_id].exists
        /\ store[last'.function_id].used_by # <<>>) =>
          LET old == store[last'.function_id]
              NotOld(tool) == tool.function.name # old.value.name
          IN  \A k \in DOMAIN old.used_by :
                  assistants'[old.used_by[k]] =
                      Append(SelectSeq(assistants[old.used_by[k]], NotOld),
                             [type |-> "function", function |-> last'.schema])]_vars

\* C8: a Remove of function id F leaves F in neither the session cache nor the
\* store, and leaves every other id as it was in both.
C8_RemoveDeletesBoth ==
    [][last'.op = "remove" =>
          LET F == last'.function_id
              s == last'.session
          IN  /\ ~DictHas(functions'[s], F)
              /\ ~store'[F].exists
              /\ \A G \in FunctionIdSpace \ {F} :
                     /\ store'[G] = store[G]
                     /\ DictHas(functions'[s], G) <=> DictHas(functions[s], G)
                     /\ DictHas(functions[s], G) =>
                            DictGet(functions'[s], G) = DictGet(functions[s], G)]_vars

\* C8 witness: a completed Remove of a stored function while another function
\* stays in the cache and in the store.
C8_Witness ==
    /\ last.op = "remove"
    /\ last.outcome = "ok"
    /\ last.found
    /\ \E G \in FunctionIdSpace :
           /\ store[G].exists
           /\ DictHas(functions[last.session], G)

-----------------------------------------------------------------------------
(* The generator's fallback *)

\* C12: when the class name derived from the widget type is not in the
\* message registry, the call returns (it does not raise) an AssistantMessage
\* with the fixed 'unknown widget type' text, and the counter it returns is
\* the received one on the output-widget path and the incremented one on the
\* input-widget path.
C12_UnknownWidgetFallsBack ==
    (/\ response.response_type \in {"output_widget", "input_widget"}
     /\ response.class_name \notin message_registry)
        => /\ response.message.cls
                 = <<"A","s","s","i","s","t","a","n","t","M","e","s","s","a","g","e">>
           /\ DOMAIN response.message = {"cls", "content"}
           /\ response.message.content = "Sorry, I encountered an unknown widget type."
           /\ response.response_type = "output_widget" =>
                  /\ response.counter = response.received
                  /\ widget_counter = response.received
           /\ response.response_type = "input_widget" =>
                  /\ response.counter = response.received + 1
                  /\ widget_counter = response.counter

\* an output-widget call with an unresolved class name, made after input
\* widgets raised the counter
C12_Witness ==
    /\ response.response_type = "output_widget"
    /\ response.class_name \notin message_registry
    /\ response.received >= 2
    /\ response.counter = response.received

-----------------------------------------------------------------------------
(* Properties of remove_parameter *)

\* the ids of a parameter mapping
ParamIds(params) == {params[i].id : i \in DOMAIN params}

\* the position the mapping holds the id at
ParamOf(params, id) == (CHOOSE i \in DOMAIN params : params[i].id = id)

\* C11: remove_parameter with an id of the mapping removes exactly that
\* entry: the key set afterwards is the previous one minus the id, every
\* remaining id maps to the same parameter, and the remaining entries keep
\* their order.
C11_RemoveExactlyThatEntry ==
    schema_pc = "removed" =>
        LET after == converted.parameters
        IN  /\ ParamIds(after) = ParamIds(parameters) \ {removed_id}
            /\ Len(after) = Len(parameters) - 1
            /\ \A id \in ParamIds(after) :
                   after[ParamOf(after, id)].param
                       = parameters[ParamOf(parameters, id)].param
            /\ \A i, j \in DOMAIN after :
                   i < j => ParamOf(parameters, after[i].id)
                              < ParamOf(parameters, after[j].id)

\* a removal from the middle of a mapping of three
C11_Witness ==
    /\ schema_pc = "removed"
    /\ Len(parameters) = 3
    /\ removed_id = parameters[2].id
    /\ parameters[1].param # parameters[3].param
    /\ Len(converted.parameters) = 2

-----------------------------------------------------------------------------
(* Concurrent editors *)

\* C13: a Save by a session whose copy of the function is older than the
\* stored record (another session saved it after this one loaded it) is
\* carried out like any other: no check, no error. The record then holds this
\* session's schema and name, every referencing assistant has it as its newest
\* tool, and the other sessions' state is left as it was (they are not told).
C13_StaleSaveOverwrites ==
    [][(last'.op = "save" /\ last'.was_stale /\ last'.failed_at = 0) =>
          LET F == last'.function_id
              s == last'.session
          IN  /\ last'.outcome = "ok"
              /\ store'[F].exists
              /\ store'[F].value = last'.schema
              /\ store'[F].name = last'.schema_name
              /\ \A k \in DOMAIN store[F].used_by :
                     LET tools == assistants'[store[F].used_by[k]]
                     IN  /\ tools # <<>>
                         /\ tools[Len(tools)].function = last'.schema
              /\ \A t \in Sessions \ {s} :
                     /\ current_function'[t] = current_function[t]
                     /\ functions'[t] = functions[t]]_vars

\* the lost update: the first writer changed the description to "fd2", the
\* second writer, still showing the description it loaded, saved "fd" over
\* it; the record and every referencing assistant carry only the second
\* writer's schema
C13_Witness ==
    /\ last.op = "save"
    /\ last.outcome = "ok"
    /\ last.was_stale
    /\ last.replaced.description = "fd2"
    /\ last.schema.description = "fd"
    /\ store[last.function_id].value = last.schema
    /\ store[last.function_id].used_by # <<>>
    /\ \A k \in DOMAIN store[last.function_id].used_by :
           LET tools == assistants[store[last.function_id].used_by[k]]
           IN  /\ \E i \in DOMAIN tools : tools[i].function = last.schema
               /\ \A i \in DOMAIN tools : tools[i].function # last.replaced

-----------------------------------------------------------------------------
(* A failing assistant update *)

\* C14: when the retrieve or update call for the assistant at position k of
\* the used-by list fails during Save, the run ends with the error: the record
\* already holds the new schema and name, the assistants before position k
\* have the new schema as their newest tool, the assistants from position k on
\* are as they were, and the session's cache entry is not updated.
C14_FailedUpdateAbortsLoop ==
    [][(last'.op = "save" /\ last'.failed_at > 0) =>
          LET F == last'.function_id
              s == last'.session
              used_by == store[F].used_by
          IN  /\ last'.outcome = "raised"
              /\ last'.failed_at \in DOMAIN used_by
              /\ store'[F].value = last'.schema
              /\ store'[F].name = last'.schema_name
              /\ store'[F].used_by = used_by
              /\ \A j \in DOMAIN used_by :
                     LET tools == assistants'[used_by[j]]
                     IN  IF j < last'.failed_at
                         THEN /\ tools # <<>>
                              /\ tools[Len(tools)].function = last'.schema
                         ELSE tools = assistants[used_by[j]]
              /\ functions'[s] = functions[s]]_vars

\* the update of the second of two assistants failed on a Save that changed
\* the schema and the schema name: the record and the first assistant are
\* new, the second assistant and the cache entry are old
C14_Witness ==
    /\ last.op = "save"
    /\ last.outcome = "raised"
    /\ last.failed_at = 2
    /\ last.schema # last.replaced
    /\ LET F == last.function_id
           used_by == store[F].used_by
       IN  /\ Len(used_by) = 2
           /\ store[F].value = last.schema
           /\ \E i \in DOMAIN assistants[used_by[1]] :
                  assistants[used_by[1]][i].function = last.schema
           /\ \A i \in DOMAIN assistants[used_by[2]] :
                  assistants[used_by[2]][i].function # last.schema
           /\ \E i \in DOMAIN assistants[used_by[2]] :
                  assistants[used_by[2]][i].function = last.replaced
           /\ DictGet(functions[last.session], F) # store[F].name

-----------------------------------------------------------------------------
(* Saves of one function in one session *)

\* the tools of an assistant that come from the stored function: all but the
\* assistant's unrelated tool
OwnTools(tools) ==
    LET FromFunction(tool) == tool.function.name # "OtherTool"
    IN  SelectSeq(tools, FromFunction)

\* C15 (as claimed): after every completed Save of a stored function that
\* assistants use, each assistant of its used-by list holds exactly one tool
\* that comes from this function, the schema just saved, and none left over
\* from an earlier name or Save.
C15_OneToolPerFunction ==
    [][(/\ last'.op = "save"
        /\ last'.outcome = "ok"
        /\ store[last'.function_id].exists
        /\ store[last'.function_id].used_by # <<>>) =>
          \A k \in DOMAIN store[last'.function_id].used_by :
              OwnTools(assistants'[store[last'.function_id].used_by[k]])
                  = <<FunctionTool(last'.schema)>>]_vars

-----------------------------------------------------------------------------
(* Removing parameters in the editor *)

\* C16 (as claimed): after "Remove Parameter" and the rerun that follows, the
\* function the page shows has the parameters it had before without the
\* removed one (none at all when the last one was removed), and the name and
\* description it had before.
C16_RemovedStaysRemoved ==
    [][last'.op = "remove_parameter" =>
          LET before == current_function[last'.session]
              after  == current_function'[last'.session]
              Kept(entry) == entry.id # last'.param_id
          IN  /\ after.parameters = SelectSeq(before.parameters, Kept)
              /\ after.name = before.name
              /\ after.description = before.description]_vars

====
